---- MODULE Spec2Model ----
(***************************************************************************)
(* Model of the AOP calculator (src/app/core/calc/calc.js): the annuity    *)
(* factor apf, the cashflow valuations NPV and dNPV, the Newton solver IRR *)
(* and the schedule generator cashflow (facade name cfw).                  *)
(*                                                                         *)
(* Numbers.  A JavaScript number is modelled as an exact rational          *)
(* <<n, d>> in lowest terms with d > 0, extended with the three IEEE       *)
(* special values the code can produce by dividing by zero:                *)
(* <<1, 0>> = +Infinity, <<-1, 0>> = -Infinity, <<0, 0>> = NaN.            *)
(* The rounding of binary64 arithmetic is not modelled: every operation    *)
(* returns the exact quotient, sum or product.  Signed zero is not         *)
(* modelled.                                                               *)
(***************************************************************************)
EXTENDS Integers, Sequences, FiniteSets, TLC

(***************************************************************************)
(* Exact arithmetic on extended rationals                                  *)
(***************************************************************************)
Abs(x) == IF x < 0 THEN -x ELSE x

Sgn(x) == IF x > 0 THEN 1 ELSE IF x < 0 THEN -1 ELSE 0

RECURSIVE GCD(_, _)
GCD(a, b) == IF b = 0 THEN a ELSE GCD(b, a % b)

\* lowest terms, positive denominator; a zero denominator keeps only the sign
Norm(n, d) ==
  IF d = 0 THEN <<Sgn(n), 0>>
  ELSE LET g == GCD(Abs(n), Abs(d))
       IN  <<Sgn(d) * (n \div g), Abs(d) \div g>>

Zero == <<0, 1>>
One == <<1, 1>>
NaN == <<0, 0>>
Infinity == <<1, 0>>

Num(k) == <<k, 1>>

IsNaN(x) == x = NaN
IsFinite(x) == x[2] # 0

\* x + y over the least common denominator; Infinity + Infinity = Infinity,
\* Infinity - Infinity = NaN
RAdd(x, y) ==
  IF x[2] = 0 /\ y[2] = 0
  THEN (IF x = y THEN x ELSE NaN)
  ELSE IF x[2] = 0 \/ y[2] = 0
  THEN Norm(x[1] * y[2] + y[1] * x[2], 0)
  ELSE LET g == GCD(x[2], y[2])
       IN  Norm(x[1] * (y[2] \div g) + y[1] * (x[2] \div g),
                x[2] * (y[2] \div g))

RNeg(x) == <<-x[1], x[2]>>

RSub(x, y) == RAdd(x, RNeg(y))

\* the product n1 * n2 / (d1 * d2), cancelled crosswise before multiplying
Frac(n1, n2, d1, d2) ==
  LET g1 == GCD(Abs(n1), Abs(d1))
      g2 == GCD(Abs(n2), Abs(d2))
      a1 == IF g1 = 0 THEN n1 ELSE n1 \div g1
      b1 == IF g1 = 0 THEN d1 ELSE d1 \div g1
      a2 == IF g2 = 0 THEN n2 ELSE n2 \div g2
      b2 == IF g2 = 0 THEN d2 ELSE d2 \div g2
  IN  Norm(a1 * a2, b1 * b2)

RMul(x, y) == Frac(x[1], y[1], y[2], x[2])

RDiv(x, y) == Frac(x[1], y[2], y[1], x[2])

RAbs(x) == <<Abs(x[1]), x[2]>>

\* x < y, compared over the least common denominator; every comparison
\* with NaN is false
RLt(x, y) ==
  /\ ~IsNaN(x)
  /\ ~IsNaN(y)
  /\ IF x[2] = 0 /\ y[2] = 0 THEN x[1] < y[1]
     ELSE IF x[2] = 0 \/ y[2] = 0 THEN x[1] * y[2] < y[1] * x[2]
     ELSE IF Sgn(x[1]) # Sgn(y[1]) THEN Sgn(x[1]) < Sgn(y[1])
     ELSE LET g == GCD(x[2], y[2])
          IN  x[1] * (y[2] \div g) < y[1] * (x[2] \div g)

RGt(x, y) == RLt(y, x)

RLe(x, y) == ~IsNaN(x) /\ ~IsNaN(y) /\ ~RLt(y, x)

RGe(x, y) == RLe(y, x)

RECURSIVE IPow(_, _)
IPow(b, k) ==
  IF k = 0 THEN 1
  ELSE LET h == IPow(b, k \div 2)
       IN  IF k % 2 = 0 THEN h * h ELSE h * h * b

\* Math.pow(x, k) for an integer exponent k
Pow(x, k) ==
  IF k = 0 THEN One
  ELSE IF k > 0 THEN Norm(IPow(x[1], k), IPow(x[2], k))
  ELSE RDiv(One, Norm(IPow(x[1], -k), IPow(x[2], -k)))

\* Math.ceil
Ceil(x) ==
  IF x[2] = 0 THEN x
  ELSE LET q == IF x[1] >= 0 THEN x[1] \div x[2] ELSE -((-x[1]) \div x[2])
       IN  IF q * x[2] < x[1] THEN Num(q + 1) ELSE Num(q)

(***************************************************************************)
(* Pure functions of calc.js                                               *)
(***************************************************************************)
\* apf without the branch on the rate: linear repayment at every rate
apf_linear(rate, n) == IF n > 0 THEN RDiv(One, Num(n)) ELSE One

\* apf(rate, n), calc.js 62-64
apf(rate, n) ==
  IF RGt(rate, Zero)
  THEN RDiv(rate, RSub(One, Pow(RAdd(One, rate), -n)))
  ELSE (IF n > 0 THEN RDiv(One, Num(n)) ELSE One)

\* facade pmt: p * apf(rate, n)
pmt(P, rate, n) == RMul(P, apf(rate, n))

\* Array.prototype.reduce without an initial value, as NPV uses it: the
\* accumulator starts as element 0 and the callback runs for JS index 1..
\* (TLA+ index i + 1).
RECURSIVE NPVreduce(_, _, _, _)
NPVreduce(cf, r, i, NPVn) ==
  IF i >= Len(cf) THEN NPVn
  ELSE NPVreduce(cf, r, i + 1,
                 IF i > 0 THEN RAdd(NPVn, RDiv(cf[i + 1], Pow(r, i)))
                 ELSE cf[i + 1])

\* NPV(cashflow, rate) for a non-empty cashflow, calc.js 71-74
NPV(cf, rate) == NPVreduce(cf, RAdd(rate, One), 1, cf[1])

RECURSIVE dNPVreduce(_, _, _, _)
dNPVreduce(cf, r, i, NPVn) ==
  IF i >= Len(cf) THEN NPVn
  ELSE dNPVreduce(cf, r, i + 1,
                  IF i > 0
                  THEN RSub(NPVn, RDiv(RMul(Num(i), cf[i + 1]), Pow(r, i + 1)))
                  ELSE Zero)

\* dNPV(cashflow, rate) for a non-empty cashflow, calc.js 81-84
dNPV(cf, rate) == dNPVreduce(cf, RAdd(rate, One), 1, cf[1])

\* the check of calc.js 101 with || for &&
hasBothSigns_either(cf) ==
  \/ \E k \in 1..Len(cf) : RGt(cf[k], Zero)
  \/ \E k \in 1..Len(cf) : RLt(cf[k], Zero)

\* cashflow.some(CFn => CFn > 0) && cashflow.some(CFn => CFn < 0), calc.js 101
hasBothSigns(cf) ==
  /\ \E k \in 1..Len(cf) : RGt(cf[k], Zero)
  /\ \E k \in 1..Len(cf) : RLt(cf[k], Zero)

\* epsMax = 1e-10 as 1 / (EpsRoot * EpsRoot)
EpsRoot == 100000

CeilDiv(a, b) == (a + b - 1) \div b

\* x < epsMax for x >= 0 or NaN: n / d < 1 / EpsRoot^2, evaluated without
\* forming EpsRoot^2 (n * b < d  <=>  n < ceil(d / b) for integers)
LtEpsMax(x) ==
  /\ IsFinite(x)
  /\ x[1] < CeilDiv(CeilDiv(x[2], EpsRoot), EpsRoot)

\* iterMax, calc.js 99
iterMax == 50

(***************************************************************************)
(* cashflow(p, ppy, options): resolution of the segments, calc.js 148-195  *)
(***************************************************************************)
periodRate(period, ppy) == RDiv(RDiv(period.interest, Num(100)), Num(ppy))

apfsOf(periods, ppy) ==
  [index \in 1..Len(periods) |->
     apf(periodRate(periods[index], ppy), periods[index].periods)]

deltaPrincipalsOf(periods, ppy) ==
  [index \in 1..Len(periods) |->
     IF periods[index].usePayment
     THEN RDiv(periods[index].payment, apfsOf(periods, ppy)[index])
     ELSE Num(-1)]

\* a forward pass that compounds the principal without taking off what the
\* fixed payments repay
RECURSIVE principalsForwFrom_noRepayment(_, _, _, _)
principalsForwFrom_noRepayment(periods, ppy, index, acc) ==
  IF index > Len(periods) THEN acc
  ELSE LET dP == deltaPrincipalsOf(periods, ppy)[index]
       IN  IF RLt(dP, Zero) THEN acc
           ELSE principalsForwFrom_noRepayment(periods, ppy, index + 1,
                  Append(acc, RMul(acc[index],
                                   Pow(RAdd(One, periodRate(periods[index], ppy)),
                                       periods[index].periods))))

\* forward pass, calc.js 157-167; index is the TLA+ (1-based) position
RECURSIVE principalsForwFrom(_, _, _, _)
principalsForwFrom(periods, ppy, index, acc) ==
  IF index > Len(periods) THEN acc
  ELSE LET dP == deltaPrincipalsOf(periods, ppy)[index]
       IN  IF RLt(dP, Zero) THEN acc
           ELSE principalsForwFrom(periods, ppy, index + 1,
                  Append(acc, RMul(RSub(acc[index], dP),
                                   Pow(RAdd(One, periodRate(periods[index], ppy)),
                                       periods[index].periods))))

principalsForwOf(principal, periods, ppy) ==
  principalsForwFrom(periods, ppy, 1, <<principal>>)

\* backward pass, calc.js 168-179
RECURSIVE principalsRevFrom(_, _, _, _)
principalsRevFrom(periods, ppy, indexRev, acc) ==
  IF indexRev < 1 THEN acc
  ELSE LET dP == deltaPrincipalsOf(periods, ppy)[indexRev]
       IN  IF RLt(dP, Zero) THEN acc
           ELSE principalsRevFrom(periods, ppy, indexRev - 1,
                  <<RAdd(dP, RDiv(acc[1],
                                  Pow(RAdd(One, periodRate(periods[indexRev], ppy)),
                                      periods[indexRev].periods)))>> \o acc)

principalsRevOf(periods, ppy) ==
  principalsRevFrom(periods, ppy, Len(periods), <<Zero>>)

principalsOf(principal, periods, ppy) ==
  principalsForwOf(principal, periods, ppy) \o principalsRevOf(periods, ppy)

\* reading past the end of a JS array gives undefined, NaN in arithmetic
At(s, k) == IF k \in 1..Len(s) THEN s[k] ELSE NaN

RECURSIVE endOf(_, _)
endOf(periods, index) ==
  IF index = 0 THEN 0 ELSE endOf(periods, index - 1) + periods[index].periods

\* the payment of one segment, calc.js 184-187
paymentOf(principal, periods, ppy, roundedPayment, index) ==
  LET period    == periods[index]
      bounds    == principalsOf(principal, periods, ppy)
      computed  == RMul(RSub(At(bounds, index),
                             RDiv(At(bounds, index + 1),
                                  Pow(RAdd(One, periodRate(period, ppy)),
                                      period.periods))),
                        apfsOf(periods, ppy)[index])
      payment   == IF period.usePayment THEN period.payment ELSE computed
  IN  IF ~period.usePayment /\ roundedPayment THEN Ceil(payment) ELSE payment

\* loanPeriods, calc.js 182-194
loanPeriodsOf(principal, periods, ppy, roundedPayment) ==
  [index \in 1..Len(periods) |->
     [interest |-> periodRate(periods[index], ppy),
      fee      |-> periods[index].fee,
      payment  |-> paymentOf(principal, periods, ppy, roundedPayment, index),
      end      |-> endOf(periods, index)]]

\* loanPeriods.find(period => i < period.end): the index of the first such
\* segment, 0 when there is none
findPeriod(lps, i) ==
  IF \E k \in 1..Len(lps) : i < lps[k].end
  THEN CHOOSE k \in 1..Len(lps) :
         /\ i < lps[k].end
         /\ \A j \in 1..(k - 1) : ~(i < lps[j].end)
  ELSE 0

\* the threshold 0.01 of calc.js 199
BalanceEps == <<1, 100>>

\* the largest i for which the loop of calc.js 199 is entered
MaxI == 180

(***************************************************************************)
(* Bounds and input sets                                                   *)
(***************************************************************************)
MaxSegments == 2
MaxPeriodCount == 2
MaxFlowLen == 3
MaxDen == 2000

\* a period count beyond the cap of the simulation loop
LongPeriods == MaxI + 2

PSet == {<<3, 200>>, Num(4)}
PpySet == {2}
CostsSet == {One}
InterestSet == {Zero, Num(200)}
PaymentSet == {Zero, Num(3)}
FeeSet == {Zero, One}
FlowValues == {Num(-2), Num(-1), Zero, One, Num(2)}
Undefined == "undefined"
GuessSet == {Undefined, Zero, <<1, 2>>, One}
RateSet == {Zero, <<1, 2>>, One}

\* the fee that goes with an interest rate: none in an interest-free segment
feeFor(interest) == IF interest = Zero THEN Zero ELSE One

\* LoanSegment records; the payment of a segment with usePayment = FALSE is
\* never read by the code and is kept 0 as in the views
SegmentSet ==
  { s \in [periods : 0..MaxPeriodCount, interest : InterestSet,
           payment : PaymentSet, fee : FeeSet, usePayment : BOOLEAN] :
      /\ ~s.usePayment => s.payment = Zero
      /\ s.fee = feeFor(s.interest) }

\* segments as long as the cap of the loop and longer, at rate 0
LongSegmentSet ==
  [periods : {MaxI, LongPeriods}, interest : {Zero},
   payment : {Zero}, fee : FeeSet, usePayment : BOOLEAN]

unresolvedCount(periods) ==
  Cardinality({k \in 1..Len(periods) : ~periods[k].usePayment})

\* valid segment lists: at most one segment has usePayment = FALSE
PeriodsSet ==
  { ps \in UNION { [1..n -> SegmentSet] : n \in 1..MaxSegments } :
      unresolvedCount(ps) <= 1 }
  \cup { <<s>> : s \in LongSegmentSet }

OptionsSet ==
  [costs : CostsSet, periods : PeriodsSet,
   includeCost : BOOLEAN, roundedPayment : BOOLEAN]

FlowSet == UNION { [1..n -> FlowValues] : n \in 0..MaxFlowLen }

(***************************************************************************)
(* State                                                                   *)
(***************************************************************************)
VARIABLES
  pc,           \* "idle", "loop" (cashflow, calc.js 199), "newton" (IRR, 104), "done"
  fn,           \* the function that was called
  p, ppy, opt,  \* arguments of cashflow
  principal, loanPeriods, balance, i, paymentplan,   \* locals of cashflow
  flow, irr, iteration,                              \* argument and locals of IRR
  args,         \* arguments of apf, NPV, dNPV
  ret           \* the returned value, "TypeError" for a thrown TypeError

vars == <<pc, fn, p, ppy, opt, principal, loanPeriods, balance, i, paymentplan,
          flow, irr, iteration, args, ret>>

cfwVars == <<p, ppy, opt, principal, loanPeriods, balance, i, paymentplan>>
irrVars == <<flow, irr, iteration>>

None == "none"

Init ==
  /\ pc = "idle"
  /\ fn = None
  /\ p = None /\ ppy = None /\ opt = None
  /\ principal = None /\ loanPeriods = <<>> /\ balance = None
  /\ i = 0 /\ paymentplan = <<>>
  /\ flow = <<>> /\ irr = None /\ iteration = 0
  /\ args = <<>>
  /\ ret = None

(***************************************************************************)
(* cashflow(p, ppy, options), calc.js 135-249                              *)
(***************************************************************************)
\* calc.js 148
principalOf(p_, opt_) == RAdd(p_, IF opt_.includeCost THEN opt_.costs ELSE Zero)

\* calc.js 136-198: principal, loanPeriods, balance and i before the loop
cfw(p_, ppy_, opt_) ==
  /\ pc = "idle"
  /\ pc' = "loop"
  /\ fn' = "cfw"
  /\ p' = p_ /\ ppy' = ppy_ /\ opt' = opt_
  /\ principal' = principalOf(p_, opt_)
  /\ loanPeriods' = loanPeriodsOf(principal', opt_.periods, ppy_, opt_.roundedPayment)
  /\ balance' = principal'
  /\ i' = 0
  /\ paymentplan' = <<>>
  /\ UNCHANGED <<irrVars, args, ret>>

\* the loop condition of calc.js 199
loopConditionOf(i_, balance_) == i_ <= MaxI /\ RGe(balance_, BalanceEps)

loopCondition == loopConditionOf(i, balance)

\* the segment of loanPeriods.find at calc.js 203
perOf(lps, i_) == lps[findPeriod(lps, i_)]

\* the upfront cost charged in every period
costInPeriod_every(i_, opt_) == ~opt_.includeCost

\* calc.js 214: the upfront cost goes to the first period
costInPeriod(i_, opt_) == i_ = 0 /\ ~opt_.includeCost

\* calc.js 212-217: monthlyfee and paym of a regular period
monthlyfeeOf(per, i_, opt_) ==
  IF costInPeriod(i_, opt_) THEN RAdd(per.fee, opt_.costs) ELSE per.fee

paymOf(per, i_, opt_) ==
  IF costInPeriod(i_, opt_)
  THEN RAdd(RAdd(per.payment, per.fee), opt_.costs)
  ELSE RAdd(per.payment, per.fee)

\* calc.js 206 and 213
monthlyinterestOf(per, balance_) == RMul(per.interest, balance_)

repaymentOf(per, balance_) == RSub(per.payment, monthlyinterestOf(per, balance_))

\* a regular period that adds the repayment to the balance
regularEntry_adds(per, i_, opt_, balance_) ==
  [i        |-> i_ + 1,
   repayed  |-> repaymentOf(per, balance_),
   fee      |-> monthlyfeeOf(per, i_, opt_),
   interest |-> monthlyinterestOf(per, balance_),
   payment  |-> paymOf(per, i_, opt_),
   balance  |-> RAdd(balance_, repaymentOf(per, balance_))]

\* calc.js 219-228: a regular period
regularEntry(per, i_, opt_, balance_) ==
  [i        |-> i_ + 1,
   repayed  |-> repaymentOf(per, balance_),
   fee      |-> monthlyfeeOf(per, i_, opt_),
   interest |-> monthlyinterestOf(per, balance_),
   payment  |-> paymOf(per, i_, opt_),
   balance  |-> RSub(balance_, repaymentOf(per, balance_))]

\* a last period that takes the nominal repayment off the balance
finalEntry_notCleared(per, i_, opt_, balance_) ==
  [i        |-> i_ + 1,
   repayed  |-> balance_,
   fee      |-> monthlyfeeOf(per, i_, opt_),
   interest |-> monthlyinterestOf(per, balance_),
   payment  |-> RAdd(RAdd(balance_, monthlyinterestOf(per, balance_)),
                     monthlyfeeOf(per, i_, opt_)),
   balance  |-> RSub(balance_, repaymentOf(per, balance_))]

\* calc.js 229-238: the period that clears the balance
finalEntry(per, i_, opt_, balance_) ==
  [i        |-> i_ + 1,
   repayed  |-> balance_,
   fee      |-> monthlyfeeOf(per, i_, opt_),
   interest |-> monthlyinterestOf(per, balance_),
   payment  |-> RAdd(RAdd(balance_, monthlyinterestOf(per, balance_)),
                     monthlyfeeOf(per, i_, opt_)),
   balance  |-> Zero]

\* calc.js 219
isRegular(per, balance_) == RGt(balance_, repaymentOf(per, balance_))

entryOf(per, i_, opt_, balance_) ==
  IF isRegular(per, balance_) THEN regularEntry(per, i_, opt_, balance_)
  ELSE finalEntry(per, i_, opt_, balance_)

\* one pass through the loop body with a segment found, calc.js 200-239
cashflowStep ==
  /\ pc = "loop"
  /\ loopCondition
  /\ findPeriod(loanPeriods, i) # 0
  /\ LET entry == entryOf(perOf(loanPeriods, i), i, opt, balance)
     IN  /\ i' = i + 1
         /\ balance' = entry.balance
         /\ paymentplan' = Append(paymentplan, entry)
  /\ UNCHANGED <<pc, fn, p, ppy, opt, principal, loanPeriods, irrVars, args, ret>>

\* the sum xs[lo] + ... + xs[hi], split in halves to keep the recursion
\* shallow (exact addition is associative)
RECURSIVE reduceSum(_, _, _)
reduceSum(xs, lo, hi) ==
  IF lo > hi THEN Zero
  ELSE IF lo = hi THEN xs[lo]
  ELSE LET mid == (lo + hi) \div 2
       IN  RAdd(reduceSum(xs, lo, mid), reduceSum(xs, mid + 1, hi))

\* a result whose cashflow starts with -principal
cashflowResult_principal ==
  [duration      |-> i,
   principal     |-> principal,
   totalpayed    |-> reduceSum([k \in 1..Len(paymentplan) |-> paymentplan[k].payment], 1, Len(paymentplan)),
   totalinterest |-> reduceSum([k \in 1..Len(paymentplan) |-> paymentplan[k].interest], 1, Len(paymentplan)),
   paymentplan   |-> paymentplan,
   cashflow      |-> <<RNeg(principal)>> \o [k \in 1..Len(paymentplan) |-> paymentplan[k].payment]]

\* the object returned at calc.js 241-248
cashflowResult ==
  [duration      |-> i,
   principal     |-> principal,
   totalpayed    |-> reduceSum([k \in 1..Len(paymentplan) |-> paymentplan[k].payment], 1, Len(paymentplan)),
   totalinterest |-> reduceSum([k \in 1..Len(paymentplan) |-> paymentplan[k].interest], 1, Len(paymentplan)),
   paymentplan   |-> paymentplan,
   cashflow      |-> <<RNeg(p)>> \o [k \in 1..Len(paymentplan) |-> paymentplan[k].payment]]

\* the loop condition is false, calc.js 199 then 241
cashflowExit ==
  /\ pc = "loop"
  /\ ~loopCondition
  /\ pc' = "done"
  /\ ret' = cashflowResult
  /\ UNCHANGED <<fn, cfwVars, irrVars, args>>

\* no segment covers period i: break, calc.js 209-211 then 241
cashflowBreak ==
  /\ pc = "loop"
  /\ loopCondition
  /\ findPeriod(loanPeriods, i) = 0
  /\ pc' = "done"
  /\ ret' = cashflowResult
  /\ UNCHANGED <<fn, cfwVars, irrVars, args>>

(***************************************************************************)
(* IRR(cashflow, initialguess), calc.js 95-116                             *)
(***************************************************************************)
\* the precondition of calc.js 101 fails: return NaN, calc.js 115
IRRreject(cf, initialguess) ==
  /\ pc = "idle"
  /\ ~hasBothSigns(cf)
  /\ pc' = "done"
  /\ fn' = "irr"
  /\ flow' = cf
  /\ ret' = NaN
  /\ UNCHANGED <<cfwVars, irr, iteration, args>>

\* the precondition holds: seed of calc.js 102, iteration = 0
IRRenter(cf, initialguess) ==
  /\ pc = "idle"
  /\ hasBothSigns(cf)
  /\ pc' = "newton"
  /\ fn' = "irr"
  /\ flow' = cf
  /\ irr' = IF initialguess = Undefined THEN <<1, 10>> ELSE initialguess
  /\ iteration' = 0
  /\ UNCHANGED <<cfwVars, args, ret>>

\* b^k <= lim, evaluated without forming b^k
RECURSIVE PowFits(_, _, _)
PowFits(b, k, lim) ==
  IF k = 0 THEN lim >= 1
  ELSE IF b > lim THEN FALSE
  ELSE PowFits(b, k - 1, lim \div b)

\* the iterate is small enough for the exact arithmetic of one Newton step
Representable(x, cf) ==
  IsFinite(x) => PowFits(Abs(x[1]) + x[2], Len(cf), MaxDen)

\* one Newton step, calc.js 104-112
IRRiterate ==
  /\ pc = "newton"
  /\ iteration < iterMax
  /\ Representable(irr, flow)
  /\ LET npv  == NPV(flow, irr)
         irr2 == RSub(irr, RDiv(npv, dNPV(flow, irr)))
         dirr == RAbs(RSub(irr2, irr))
     IN  /\ irr' = irr2
         /\ IF LtEpsMax(dirr) \/ LtEpsMax(RAbs(npv))
            THEN /\ pc' = "done"
                 /\ ret' = irr2
                 /\ UNCHANGED iteration
            ELSE /\ iteration' = iteration + 1
                 /\ UNCHANGED <<pc, ret>>
  /\ UNCHANGED <<fn, cfwVars, flow, args>>

\* iterMax steps without convergence: return NaN, calc.js 115
IRRexhausted ==
  /\ pc = "newton"
  /\ ~(iteration < iterMax)
  /\ pc' = "done"
  /\ ret' = NaN
  /\ UNCHANGED <<fn, cfwVars, irrVars, args>>

(***************************************************************************)
(* Calls of the pure functions apf, NPV and dNPV                           *)
(***************************************************************************)
apfCall(rate, n) ==
  /\ pc = "idle"
  /\ pc' = "done"
  /\ fn' = "apf"
  /\ args' = <<rate, n>>
  /\ ret' = apf(rate, n)
  /\ UNCHANGED <<cfwVars, irrVars>>

\* reduce of an empty array without an initial value throws a TypeError
NPVCall(cf, rate) ==
  /\ pc = "idle"
  /\ pc' = "done"
  /\ fn' = "npv"
  /\ args' = <<cf, rate>>
  /\ ret' = IF Len(cf) = 0 THEN "TypeError" ELSE NPV(cf, rate)
  /\ UNCHANGED <<cfwVars, irrVars>>

dNPVCall(cf, rate) ==
  /\ pc = "idle"
  /\ pc' = "done"
  /\ fn' = "dnpv"
  /\ args' = <<cf, rate>>
  /\ ret' = IF Len(cf) = 0 THEN "TypeError" ELSE dNPV(cf, rate)
  /\ UNCHANGED <<cfwVars, irrVars>>

\* a call is made from the idle state only; the guard stands before the
\* quantifier over the inputs
Next ==
  \/ pc = "idle" /\ \E p_ \in PSet, ppy_ \in PpySet, opt_ \in OptionsSet : cfw(p_, ppy_, opt_)
  \/ cashflowStep
  \/ cashflowExit
  \/ cashflowBreak
  \/ pc = "idle" /\ \E cf \in FlowSet, g \in GuessSet : IRRreject(cf, g)
  \/ pc = "idle" /\ \E cf \in FlowSet, g \in GuessSet : IRRenter(cf, g)
  \/ IRRiterate
  \/ IRRexhausted
  \/ pc = "idle" /\ \E rate \in RateSet, n \in 0..(MaxPeriodCount + 1) : apfCall(rate, n)
  \/ pc = "idle" /\ \E cf \in FlowSet, rate \in RateSet : NPVCall(cf, rate)
  \/ pc = "idle" /\ \E cf \in FlowSet, rate \in RateSet : dNPVCall(cf, rate)

Spec == Init /\ [][Next]_vars

(***************************************************************************)
(* Properties of the schedule generator                                    *)
(***************************************************************************)
inCashflow == fn = "cfw"

cashflowDone == fn = "cfw" /\ pc = "done"

\* the balance before the period of entry k
balanceBefore(k) == IF k = 1 THEN principal ELSE paymentplan[k - 1].balance

\* the segment that governs the period of entry k
segmentOf(k) == loanPeriods[findPeriod(loanPeriods, k - 1)]

lastEntry == paymentplan[Len(paymentplan)]

\* the payment of entry k covers the interest of its period
coversInterest(k) ==
  RGe(segmentOf(k).payment, RMul(segmentOf(k).interest, balanceBefore(k)))

\* entry k repaid the whole balance (the branch of calc.js 229-238)
clearedBy(k) ==
  ~RGt(balanceBefore(k),
       RSub(segmentOf(k).payment, RMul(segmentOf(k).interest, balanceBefore(k))))

\* C1 as stated: whenever cashflow has returned a non-empty payment plan, the
\* last entry has balance exactly 0, whatever stopped the loop.
C1_LastBalanceZero ==
  (cashflowDone /\ Len(paymentplan) > 0) => lastEntry.balance = Zero

\* C1 amended: the last entry carries the balance the loop ended with; it is
\* exactly 0 if and only if the last period repaid the whole balance, and a
\* loop stopped by the threshold ends with a balance >= 0 below 0.01.
C1_LastBalance ==
  (cashflowDone /\ Len(paymentplan) > 0) =>
     /\ lastEntry.balance = balance
     /\ lastEntry.balance = Zero <=> clearedBy(Len(paymentplan))
     /\ ~RGe(balance, BalanceEps) =>
          (RGe(lastEntry.balance, Zero) /\ RLt(lastEntry.balance, BalanceEps))

\* a schedule of several periods that ended by clearing the balance
C1_Witness ==
  /\ cashflowDone
  /\ Len(paymentplan) > 1
  /\ lastEntry.balance = Zero
  /\ paymentplan[1].balance # Zero

\* a schedule that ran out of segments with a positive balance left
C1_WitnessTruncated ==
  /\ cashflowDone
  /\ Len(paymentplan) > 0
  /\ RGe(balance, BalanceEps)
  /\ i <= MaxI

\* C2 as stated: the balance never increases from one entry to the next, the
\* first entry compared with principal.
C2_BalanceNonIncreasing ==
  inCashflow =>
    \A k \in 1..Len(paymentplan) :
      RLe(paymentplan[k].balance, balanceBefore(k))

\* C2 amended: the balance does not increase over a period whose payment
\* covers the period's interest, and it increases over a period whose fixed
\* payment is smaller than the interest.
C2_BalanceNonIncreasingWhenCovered ==
  inCashflow =>
    \A k \in 1..Len(paymentplan) :
      IF coversInterest(k)
      THEN RLe(paymentplan[k].balance, balanceBefore(k))
      ELSE RGt(paymentplan[k].balance, balanceBefore(k))

\* a plan with a strictly decreasing balance over at least two periods
C2_Witness ==
  /\ inCashflow
  /\ Len(paymentplan) >= 2
  /\ \A k \in 1..Len(paymentplan) :
       coversInterest(k) /\ RLt(paymentplan[k].balance, balanceBefore(k))

\* C3: the payment plan never has more than 180 entries and i never exceeds
\* 180.
C3_AtMost180Periods ==
  inCashflow => (i <= MaxI /\ Len(paymentplan) <= MaxI)

\* C8: without includeCost the upfront cost is in the fee and the payment of
\* entry 1 only and principal = p; with includeCost principal = p + costs and
\* every fee is the fee of the governing segment.
C8_UpfrontCost ==
  inCashflow =>
    /\ principal = (IF opt.includeCost THEN RAdd(p, opt.costs) ELSE p)
    /\ \A k \in 1..Len(paymentplan) :
         LET e    == paymentplan[k]
             cost == IF k = 1 /\ ~opt.includeCost THEN opt.costs ELSE Zero
         IN  /\ e.fee = RAdd(segmentOf(k).fee, cost)
             /\ e.payment =
                  RAdd(RAdd(RAdd(e.repayed, e.interest), segmentOf(k).fee), cost)

\* a plan of two periods without includeCost whose first period is regular
C8_Witness ==
  /\ inCashflow
  /\ ~opt.includeCost
  /\ opt.costs # Zero
  /\ Len(paymentplan) >= 2
  /\ paymentplan[1].balance # Zero

\* a plan without includeCost whose first period clears the balance
C8_WitnessFinalFirst ==
  /\ inCashflow
  /\ ~opt.includeCost
  /\ opt.costs # Zero
  /\ Len(paymentplan) = 1
  /\ paymentplan[1].balance = Zero

\* C10: payment = repayed + interest + fee and balance = previous balance -
\* repayed in every entry; the entries are numbered 1..duration; the cashflow
\* is -p followed by the payments.
C10_Bookkeeping ==
  inCashflow =>
    /\ i = Len(paymentplan)
    /\ \A k \in 1..Len(paymentplan) :
         LET e == paymentplan[k]
         IN  /\ e.i = k
             /\ e.payment = RAdd(RAdd(e.repayed, e.interest), e.fee)
             /\ e.balance = RSub(balanceBefore(k), e.repayed)
    /\ pc = "done" =>
         /\ ret.duration = Len(ret.paymentplan)
         /\ ret.paymentplan = paymentplan
         /\ Len(ret.cashflow) = ret.duration + 1
         /\ ret.cashflow[1] = RNeg(p)
         /\ \A k \in 1..Len(paymentplan) :
              ret.cashflow[k + 1] = paymentplan[k].payment

\* a returned schedule with costs folded into principal and several entries
C10_Witness ==
  /\ cashflowDone
  /\ opt.includeCost
  /\ opt.costs # Zero
  /\ ret.duration >= 2
  /\ lastEntry.balance = Zero

\* options made of one segment with usePayment = FALSE
singleUnresolved ==
  Len(opt.periods) = 1 /\ ~opt.periods[1].usePayment

\* the conclusion of C4 for the segment opt.periods[1]
annuityRunsToZero ==
  LET n    == opt.periods[1].periods
      rate == periodRate(opt.periods[1], ppy)
  IN  /\ loanPeriods[1].payment = pmt(principal, rate, n)
      /\ principal = (IF opt.includeCost THEN RAdd(p, opt.costs) ELSE p)
      /\ ret.duration = n
      /\ Len(ret.paymentplan) = n
      /\ ret.paymentplan[n].balance = Zero

lastPeriodIsSimulated ==
  RGe(pmt(principal, periodRate(opt.periods[1], ppy), opt.periods[1].periods),
      RMul(BalanceEps, RAdd(One, periodRate(opt.periods[1], ppy))))

C4_WitnessLong ==
  /\ cashflowDone
  /\ singleUnresolved
  /\ opt.periods[1].periods = MaxI
  /\ ~opt.roundedPayment
  /\ lastPeriodIsSimulated

\* segments with usePayment = TRUE followed by exactly one, last, segment with
\* usePayment = FALSE
fixedPrefixThenUnresolved ==
  /\ Len(opt.periods) >= 2
  /\ \A k \in 1..(Len(opt.periods) - 1) : opt.periods[k].usePayment
  /\ ~opt.periods[Len(opt.periods)].usePayment

prefixEnd == endOf(opt.periods, Len(opt.periods) - 1)

totalPeriods == endOf(opt.periods, Len(opt.periods))

\* the forward-pass boundary value at the start of the last segment
residualPrincipal ==
  principalsOf(principal, opt.periods, ppy)[Len(opt.periods)]

residualPayment ==
  RMul(residualPrincipal,
       apf(periodRate(opt.periods[Len(opt.periods)], ppy),
           opt.periods[Len(opt.periods)].periods))

everySegmentHasPeriods ==
  \A k \in 1..Len(opt.periods) : opt.periods[k].periods >= 1

lacksASign(cf) ==
  \/ \A k \in 1..Len(cf) : ~RGt(cf[k], Zero)
  \/ \A k \in 1..Len(cf) : ~RLt(cf[k], Zero)

\* C6: for a cashflow without a strictly positive or without a strictly
\* negative entry IRR returns NaN at once, without a Newton step; a finite
\* rate is returned only for a cashflow with both signs.
C6_IRRPrecondition ==
  fn = "irr" =>
    /\ lacksASign(flow) =>
         (pc = "done" /\ IsNaN(ret) /\ iteration = 0 /\ irr = None)
    /\ (pc = "done" /\ ~IsNaN(ret)) => ~lacksASign(flow)

\* IRR has rejected a cashflow of three positive entries
C6_Witness ==
  /\ fn = "irr"
  /\ pc = "done"
  /\ Len(flow) = 3
  /\ \A k \in 1..Len(flow) : RGt(flow[k], Zero)
  /\ IsNaN(ret)

\* IRR has returned a rate after a Newton step on a cashflow with both signs
C6_WitnessRate ==
  /\ fn = "irr"
  /\ pc = "done"
  /\ ~lacksASign(flow)
  /\ IsFinite(ret)

\* the sum over JS index k >= 1 of -k * cashflow[k] / (1 + rate)^(k + 1)
RECURSIVE derivativeSum(_, _, _)
derivativeSum(cf, rate, k) ==
  IF k >= Len(cf) THEN Zero
  ELSE RAdd(RNeg(RDiv(RMul(Num(k), cf[k + 1]), Pow(RAdd(One, rate), k + 1))),
            derivativeSum(cf, rate, k + 1))

\* C7: dNPV of a non-empty cashflow is the sum over k >= 1 of
\* -k * cashflow[k] / (1 + rate)^(k + 1); element 0 contributes nothing.
C7_DerivativeIgnoresFirst ==
  (fn = "dnpv" /\ pc = "done" /\ Len(args[1]) >= 1) =>
     ret = derivativeSum(args[1], args[2], 1)

\* C9: apf returns 1 when n = 0, 1 / n when rate = 0 and n > 0, and
\* rate / (1 - (1 + rate)^(-n)) when rate > 0 and n > 0.
C9_AnnuityFactorTable ==
  (fn = "apf" /\ pc = "done") =>
     LET rate == args[1]
         n    == args[2]
     IN  ret = (IF n = 0 THEN One
                ELSE IF rate = Zero THEN RDiv(One, Num(n))
                ELSE RDiv(rate, RSub(One, RDiv(One, Pow(RAdd(One, rate), n)))))

====
